---- MODULE Spec2Model ----
(***************************************************************************)
(* Model of the geolocation pipeline of tg-etl/transform.py:               *)
(* process_message (the five-stage cascade), the extractors it calls,      *)
(* MapboxGeocoder.geocode, LLMGeolocator.geocode_locations, process_file   *)
(* and main.                                                               *)
(*                                                                         *)
(* Texts.  A message text is a sequence of tokens, word, separator, word,  *)
(* ..., and stands for the Python string that is the concatenation of its  *)
(* tokens (Render).  The regular expressions of the source are evaluated   *)
(* on these token sequences.                                               *)
(*                                                                         *)
(* Numbers.  Latitudes and longitudes are integers in hundredths of a      *)
(* degree (50.45 is 5045).  Confidences, candidate weights and relevances  *)
(* are Python floats (IEEE doubles).  A double is written <<m, e>>: the     *)
(* double that lies e units in the last place above the double nearest to  *)
(* the decimal m/1000.  Dec(950) is the literal 0.95; <<300, 1>> is         *)
(* 0.30000000000000004, what 0.4 * 0.75 evaluates to.                      *)
(***************************************************************************)
EXTENDS Integers, Sequences, FiniteSets, TLC

\* ------------------------------------------------------------------ bounds
\* Largest number of words in a message text.
MaxWords == 2
\* Number of times the pipeline is run on the same message.
MaxRuns == 2
\* Largest number of words in the text of a line of an input file.
MaxBatchWords == 2
\* Largest number of lines of an input file, and of input files.
MaxLines == 2
MaxFiles == 2

\* --------------------------------------------------------- Optional values
None == <<>>
Some(v) == <<v>>

\* ------------------------------------------------------------------ floats
\* The float that a decimal literal with at most three decimals denotes.
Dec(m) == <<m, 0>>

\* a < b, a <= b and a > b on floats.
Lt(a, b) == a[1] < b[1] \/ (a[1] = b[1] /\ a[2] < b[2])
Le(a, b) == ~Lt(b, a)
Gt(a, b) == Lt(b, a)

\* --------------------------------------------------------------- the texts
\* Capitalized words ([A-Z][a-z]+).
CapWords == {"Kyiv", "Odesa", "The"}

\* Decimal-degree pairs "<float>, <float>": the two floats each token
\* parses to (v, in hundredths) and their repr (s).
DecimalTable ==
    ( "50.45, 30.52" :> [a |-> [v |-> 5045, s |-> "50.45"], b |-> [v |-> 3052, s |-> "30.52"]] )
 @@ ( "0.0, 30.52"   :> [a |-> [v |-> 0, s |-> "0.0"], b |-> [v |-> 3052, s |-> "30.52"]] )
 @@ ( "-95.5, 30.52" :> [a |-> [v |-> -9550, s |-> "-95.5"], b |-> [v |-> 3052, s |-> "30.52"]] )
DecimalWords == DOMAIN DecimalTable

\* Labelled pairs "lat: <float>, lon: <float>".
LabelledTable ==
    ( "lat: 48.5, lon: 35.25" :> [a |-> [v |-> 4850, s |-> "48.5"], b |-> [v |-> 3525, s |-> "35.25"]] )
LabelledWords == DOMAIN LabelledTable

\* Degrees-minutes-seconds pairs, with the groups the pattern captures and
\* the repr of the floats computed from them.  "<deg>" stands for the one
\* character that the pattern of the source has between degrees and minutes.
DmsTable ==
    ( "50<deg>30'0\"S, 30<deg>30'0\"E" :>
        [lat_deg |-> 50, lat_min |-> 30, lat_sec |-> 0, lat_dir |-> "S",
         lon_deg |-> 30, lon_min |-> 30, lon_sec |-> 0, lon_dir |-> "E",
         lat_s |-> "-50.5", lon_s |-> "30.5"] )
DmsWords == DOMAIN DmsTable

\* Flag symbols: "UA" and "RU" stand for the two-code-point regional
\* indicator pairs of Ukraine and Russia.
FlagUA == "<flag:UA>"
FlagRU == "<flag:RU>"
FlagWords == {FlagUA, FlagRU}

\* A lowercase word carrying no location evidence.
PlainWords == {"explosions"}

\* The words of the lines of the input files of a batch.
BatchWords == {"Kyiv", "0.0, 30.52", "explosions"}

Words == CapWords \cup DecimalWords \cup LabelledWords \cup DmsWords
            \cup FlagWords \cup PlainWords
Seps == {" ", ", ", " in "}

RECURSIVE TextsOfWords(_, _)
TextsOfWords(k, W) ==
    IF k = 0 THEN {<<>>}
    ELSE IF k = 1 THEN {<<w>> : w \in W}
    ELSE {t \o <<s, w>> : t \in TextsOfWords(k - 1, W), s \in Seps, w \in W}

TextsUpTo(n, W) == UNION {TextsOfWords(k, W) : k \in 0..n}

\* Number of words of a text, its i-th word and the separator after it.
NWords(text) == (Len(text) + 1) \div 2
Word(text, i) == text[2 * i - 1]
Sep(text, i) == text[2 * i]

\* len() of a token in Python: a flag symbol is two code points and "<deg>"
\* is one character.
TokLen(tok) ==
    IF tok \in FlagWords THEN 2
    ELSE IF tok \in DmsWords THEN Len(tok) - 8
    ELSE Len(tok)

RECURSIVE PyLen(_)
PyLen(text) == IF text = <<>> THEN 0 ELSE TokLen(Head(text)) + PyLen(Tail(text))

RECURSIVE Render(_)
Render(toks) == IF toks = <<>> THEN "" ELSE Head(toks) \o Render(Tail(toks))

\* -------------------------------------------------- extract_coordinates
\* The floats of the text in order, each with whether ",\s*" and another
\* float follow it directly (the decimal pattern pairs exactly those).
StartsWithFloat(w) == w \in DecimalWords

JoinedToNext(text, i) ==
    /\ i < NWords(text)
    /\ Sep(text, i) = ", "
    /\ StartsWithFloat(Word(text, i + 1))

RECURSIVE FloatItems(_, _)
FloatItems(text, i) ==
    IF i > NWords(text) THEN <<>>
    ELSE LET w == Word(text, i)
             here ==
               IF w \in DecimalWords
               THEN << [f |-> DecimalTable[w].a, joined |-> TRUE],
                       [f |-> DecimalTable[w].b, joined |-> JoinedToNext(text, i)] >>
               ELSE IF w \in LabelledWords
               THEN << [f |-> LabelledTable[w].a, joined |-> FALSE],
                       [f |-> LabelledTable[w].b, joined |-> JoinedToNext(text, i)] >>
               ELSE <<>>
         IN here \o FloatItems(text, i + 1)

\* re.findall of the decimal pattern: leftmost, non-overlapping pairs.
RECURSIVE PairUp(_)
PairUp(items) ==
    IF Len(items) < 2 THEN <<>>
    ELSE IF items[1].joined
         THEN << <<items[1].f, items[2].f>> >> \o PairUp(Tail(Tail(items)))
         ELSE PairUp(Tail(items))

DecimalMatches(text) == PairUp(FloatItems(text, 1))

\* re.findall of the DMS pattern and of the labelled pattern.
DmsMatches(text) ==
    SelectSeq([i \in 1..NWords(text) |-> Word(text, i)], LAMBDA w : w \in DmsWords)

LabelledMatches(text) ==
    SelectSeq([i \in 1..NWords(text) |-> Word(text, i)], LAMBDA w : w \in LabelledWords)

InRange(lat, lon) == -9000 <= lat /\ lat <= 9000 /\ -18000 <= lon /\ lon <= 18000

PairRepr(a, b) == "(" \o a \o ", " \o b \o ")"

\* The branch for a two-group match (decimal and labelled patterns).
TwoGroupResult(m) ==
    IF InRange(m[1].v, m[2].v)
    THEN Some([lat |-> m[1].v, lon |-> m[2].v, repr |-> PairRepr(m[1].s, m[2].s)])
    ELSE None

\* The branch for an eight-group match (DMS pattern).
DmsResult(w) ==
    LET d == DmsTable[w]
        lat0 == (d.lat_deg * 360000 + d.lat_min * 6000 + d.lat_sec * 100) \div 3600
        lon0 == (d.lon_deg * 360000 + d.lon_min * 6000 + d.lon_sec * 100) \div 3600
        lat == IF d.lat_dir = "S" THEN -lat0 ELSE lat0
        lon == IF d.lon_dir = "W" THEN -lon0 ELSE lon0
    IN IF InRange(lat, lon)
       THEN Some([lat |-> lat, lon |-> lon, repr |-> PairRepr(d.lat_s, d.lon_s)])
       ELSE None

\* What one pattern of the loop yields: only matches[0] is examined.
PatternResult(text, p) ==
    IF p = 1 THEN
        IF DecimalMatches(text) = <<>> THEN None
        ELSE TwoGroupResult(DecimalMatches(text)[1])
    ELSE IF p = 2 THEN
        IF DmsMatches(text) = <<>> THEN None
        ELSE DmsResult(DmsMatches(text)[1])
    ELSE
        IF LabelledMatches(text) = <<>> THEN None
        ELSE LET w == LabelledMatches(text)[1]
             IN TwoGroupResult(<<LabelledTable[w].a, LabelledTable[w].b>>)

extract_coordinates(text) ==
    IF PatternResult(text, 1) # None THEN PatternResult(text, 1)
    ELSE IF PatternResult(text, 2) # None THEN PatternResult(text, 2)
    ELSE PatternResult(text, 3)

\* ----------------------------------------------- extract_flag_countries
\* FLAG_TO_COUNTRY is a sequence of [flag, code] entries in the iteration
\* order of the mapping.
extract_flag_countries(text, flag_to_country) ==
    LET present(e) == \E i \in 1..NWords(text) : Word(text, i) = e.flag
        hits == SelectSeq(flag_to_country, present)
    IN [i \in 1..Len(hits) |-> hits[i].code]

\* --------------------------------------------------- get_country_centroid
\* COUNTRY_CENTROIDS is a function from country codes to [lat, lon].
get_country_centroid(country_code, country_centroids) ==
    IF country_code \in DOMAIN country_centroids
    THEN Some(country_centroids[country_code])
    ELSE None

\* ----------------------------------------------------- capitalized phrases
\* ([A-Z][a-z]+(?:\s+[A-Z][a-z]+)*): a run of capitalized words joined by
\* whitespace.  PhraseEnd is the last word of the longest run from word i.
IsCap(text, i) == Word(text, i) \in CapWords

RECURSIVE PhraseEnd(_, _)
PhraseEnd(text, i) ==
    IF i < NWords(text) /\ Sep(text, i) = " " /\ IsCap(text, i + 1)
    THEN PhraseEnd(text, i + 1)
    ELSE i

Phrase(text, i, j) == SubSeq(text, 2 * i - 1, 2 * j - 1)

\* finditer of "<phrase><sep><phrase>" from word i on, for the separator
\* "," + whitespace (city_country) or " in " (city_in_country).
RECURSIVE PairScan(_, _, _)
PairScan(text, i, sep) ==
    IF i > NWords(text) THEN <<>>
    ELSE IF ~IsCap(text, i) THEN PairScan(text, i + 1, sep)
    ELSE LET j == PhraseEnd(text, i)
         IN IF j < NWords(text) /\ Sep(text, j) = sep /\ IsCap(text, j + 1)
            THEN LET k == PhraseEnd(text, j + 1)
                 IN << [city |-> Phrase(text, i, j), country |-> Phrase(text, j + 1, k)] >>
                      \o PairScan(text, k + 1, sep)
            ELSE PairScan(text, j + 1, sep)

\* finditer / findall of the standalone pattern \b(<phrase>)\b.
RECURSIVE PhraseScan(_, _)
PhraseScan(text, i) ==
    IF i > NWords(text) THEN <<>>
    ELSE IF ~IsCap(text, i) THEN PhraseScan(text, i + 1)
    ELSE LET j == PhraseEnd(text, i)
         IN << Phrase(text, i, j) >> \o PhraseScan(text, j + 1)

\* str.lower() of the capitalized words.
LowerOf == ("Kyiv" :> "kyiv") @@ ("Odesa" :> "odesa") @@ ("The" :> "the")
Lower(phrase) ==
    Render([i \in 1..Len(phrase) |->
              IF phrase[i] \in DOMAIN LowerOf THEN LowerOf[phrase[i]] ELSE phrase[i]])

StopList == {"the", "and", "for", "with", "from", "this", "that"}

\* ------------------------------------------- extract_location_entities
CityCountry(m) ==
    [type |-> "city_country", city |-> Render(m.city), country |-> Some(Render(m.country)),
     query |-> Render(m.city) \o ", " \o Render(m.country), confidence |-> Dec(800)]

CityInCountry(m) ==
    [type |-> "city_in_country", city |-> Render(m.city), country |-> Some(Render(m.country)),
     query |-> Render(m.city) \o ", " \o Render(m.country), confidence |-> Dec(700)]

CityOnly(ph) ==
    [type |-> "city_only", city |-> Render(ph), country |-> None,
     query |-> Render(ph), confidence |-> Dec(400)]

KeepCity(ph) == PyLen(ph) > 2 /\ Lower(ph) \notin StopList

extract_location_entities(text) ==
    LET p1 == PairScan(text, 1, ", ")
        p2 == PairScan(text, 1, " in ")
        p3 == SelectSeq(PhraseScan(text, 1), KeepCity)
    IN [i \in 1..Len(p1) |-> CityCountry(p1[i])]
         \o [i \in 1..Len(p2) |-> CityInCountry(p2[i])]
         \o [i \in 1..Len(p3) |-> CityOnly(p3[i])]

\* --------------------------------------------------- extract_place_names
\* findall of \b(<phrase>),\s*([A-Z][a-z]+)\b: the second group is one word.
RECURSIVE PlacePairScan(_, _)
PlacePairScan(text, i) ==
    IF i > NWords(text) THEN <<>>
    ELSE IF ~IsCap(text, i) THEN PlacePairScan(text, i + 1)
    ELSE LET j == PhraseEnd(text, i)
         IN IF j < NWords(text) /\ Sep(text, j) = ", " /\ IsCap(text, j + 1)
            THEN << Render(Phrase(text, i, j)) \o ", " \o Word(text, j + 1) >>
                   \o PlacePairScan(text, j + 2)
            ELSE PlacePairScan(text, j + 1)

\* The list of the matches of both patterns, before set() removes duplicates.
PlaceList(text) ==
    LET a == PhraseScan(text, 1)
    IN [i \in 1..Len(a) |-> Render(a[i])] \o PlacePairScan(text, 1)

\* list(set(places)): the elements, whose order the hash seed of the
\* process decides.
extract_place_names(text) == {PlaceList(text)[i] : i \in 1..Len(PlaceList(text))}

\* ------------------------------------------------------ GeolocationResult
GeolocationResult ==
    [lat |-> None, lon |-> None, country_code |-> None, confidence |-> Dec(0),
     source |-> "none", place_name |-> None, geocoding_attempts |-> <<>>]

\* ----------------------------------------------------------- reference data
\* countries.yml as load_country_data returns it: the file missing (both
\* mappings empty), or the two flags with both centroids, or with a centroid
\* for the second country of the mapping only, or with an entry whose lat
\* and lon were written in each other's place (the loader checks no value).
FlagToCountry == << [flag |-> FlagUA, code |-> "UKR"], [flag |-> FlagRU, code |-> "RUS"] >>
CentroidUKR == [lat |-> 4900, lon |-> 3200]
CentroidRUS == [lat |-> 6152, lon |-> 10532]
CentroidRUSExchanged == [lat |-> 10532, lon |-> 6152]

RefDataChoices ==
    { [flag_to_country |-> <<>>, country_centroids |-> <<>>],
      [flag_to_country |-> FlagToCountry,
       country_centroids |-> ("UKR" :> CentroidUKR) @@ ("RUS" :> CentroidRUS)],
      [flag_to_country |-> FlagToCountry, country_centroids |-> ("RUS" :> CentroidRUS)],
      [flag_to_country |-> FlagToCountry,
       country_centroids |-> ("UKR" :> CentroidUKR) @@ ("RUS" :> CentroidRUSExchanged)] }

\* ------------------------------------------------- MapboxGeocoder.geocode
\* What the remote service does for a query: an error (network failure or
\* non-2xx status), an empty feature list, or one feature with its
\* coordinates and relevance (and no place_name or place_type, so that the
\* defaults of geocode apply).  The relevances: 0.7499999999999999 (the
\* float just below 0.75), 0.75 and 2.0.
Relevances == {<<750, -1>>, Dec(750), Dec(2000)}
MatchCoords == { [lat |-> 4648, lon |-> 3073] }

Outcomes ==
    { [kind |-> k, lat |-> 0, lon |-> 0, relevance |-> Dec(0)] :
          k \in {"error", "no_match"} }
      \cup { [kind |-> "match", lat |-> c.lat, lon |-> c.lon, relevance |-> r] :
                c \in MatchCoords, r \in Relevances }

\* The value geocode returns.
geocode(query, outcome) ==
    IF outcome.kind = "match"
    THEN Some([lat |-> outcome.lat, lon |-> outcome.lon, place_name |-> query,
               relevance |-> outcome.relevance, type |-> "unknown"])
    ELSE None

\* The network events of one call: the request, and time.sleep where the
\* call reaches it.
geocode_events(query, outcome) ==
    IF outcome.kind = "match"
    THEN << <<"request", query>> >>
    ELSE << <<"request", query>>, <<"delay", query>> >>

\* -------------------------------------- LLMGeolocator.geocode_locations
\* location['confidence'] * geocode_result['relevance'], line 179: the float
\* product, rounded to the nearest double as the multiplication rounds it,
\* for each weight of extract_location_entities and each relevance of the
\* model.  0.8 * 0.75 is 0.6000000000000001, 0.4 * 0.75 is
\* 0.30000000000000004, 0.4 * 0.7499999999999999 is 0.3, and 0.7 * 0.75 and
\* 0.7 * 0.7499999999999999 are both 0.5249999999999999.
ProductTable ==
    (<<Dec(800), <<750, -1>>>> :> <<600, 0>>) @@ (<<Dec(800), Dec(750)>> :> <<600, 1>>)
      @@ (<<Dec(800), Dec(2000)>> :> <<1600, 0>>)
      @@ (<<Dec(700), <<750, -1>>>> :> <<525, -1>>) @@ (<<Dec(700), Dec(750)>> :> <<525, -1>>)
      @@ (<<Dec(700), Dec(2000)>> :> <<1400, 0>>)
      @@ (<<Dec(400), <<750, -1>>>> :> <<300, 0>>) @@ (<<Dec(400), Dec(750)>> :> <<300, 1>>)
      @@ (<<Dec(400), Dec(2000)>> :> <<800, 0>>)

FloatProduct(a, b) == ProductTable[<<a, b>>]

\* The body of the loop: the result for one location, given what geocode
\* returned for its query.
LocationResult(location, geocode_result) ==
    IF geocode_result # None
    THEN [lat |-> Some(geocode_result[1].lat),
          lon |-> Some(geocode_result[1].lon),
          country_code |-> None,
          confidence |-> FloatProduct(location.confidence, geocode_result[1].relevance),
          source |-> "llm_geocoding_" \o location.type,
          place_name |-> Some(geocode_result[1].place_name),
          geocoding_attempts |->
              << "LLM extracted: " \o location.query,
                 "Geocoded successfully: " \o geocode_result[1].place_name >>]
    ELSE [GeolocationResult EXCEPT
            !.confidence = Dec(0),
            !.geocoding_attempts = << "LLM extracted: " \o location.query, "Geocoding failed" >>]

\* --------------------------------------------- calculate_confidence_score
StartsWith(str, prefix) ==
    Len(str) >= Len(prefix) /\ SubSeq(str, 1, Len(prefix)) = prefix

\* max(a, b) and min(a, b) on floats.
Max(a, b) == IF Gt(b, a) THEN b ELSE a
Min(a, b) == IF Lt(b, a) THEN b ELSE a

\* The score without the final min(base_confidence, 1.0).
calculate_confidence_score_Unclamped(r) ==
    LET c0 == r.confidence
        c1 == IF StartsWith(r.source, "coordinates") THEN Max(c0, Dec(950)) ELSE c0
        c2 == IF StartsWith(r.source, "flag") THEN Max(c1, Dec(850)) ELSE c1
        c3 == IF StartsWith(r.source, "llm_geocoding") THEN Max(c2, Dec(700)) ELSE c2
        c4 == IF StartsWith(r.source, "country_centroid") THEN Min(c3, Dec(500)) ELSE c3
        c5 == IF StartsWith(r.source, "channel_fallback") THEN Min(c4, Dec(300)) ELSE c4
    IN c5

calculate_confidence_score(r) ==
    LET c0 == r.confidence
        c1 == IF StartsWith(r.source, "coordinates") THEN Max(c0, Dec(950)) ELSE c0
        c2 == IF StartsWith(r.source, "flag") THEN Max(c1, Dec(850)) ELSE c1
        c3 == IF StartsWith(r.source, "llm_geocoding") THEN Max(c2, Dec(700)) ELSE c2
        c4 == IF StartsWith(r.source, "country_centroid") THEN Min(c3, Dec(500)) ELSE c3
        c5 == IF StartsWith(r.source, "channel_fallback") THEN Min(c4, Dec(300)) ELSE c4
    IN Min(c5, Dec(1000))

\* Where in the list the object that max returned is: the first element
\* equal to it.
PositionOf(results, r) ==
    CHOOSE i \in 1..Len(results) :
        /\ results[i] = r
        /\ \A j \in 1..(i - 1) : results[j] # r

\* max(geocode_results, key=lambda x: x.confidence): the first maximum.
BestResult(results) ==
    LET i == CHOOSE i \in 1..Len(results) :
                /\ \A j \in 1..Len(results) : Le(results[j].confidence, results[i].confidence)
                /\ \A j \in 1..(i - 1) : Lt(results[j].confidence, results[i].confidence)
    IN results[i]

\* ------------------------------------------------------- program constants
\* Step 3 runs only for len(text) > 10 and accepts only confidence > 0.3.
MinTextLen == 10
MinConfidence == 300

\* The test of line 327 accepting a confidence equal to the threshold.
AboveMinimum_OrEqual(c) == Le(Dec(MinConfidence), c)

\* Line 327: best_result.confidence > 0.3.
AboveMinimum(c) == Gt(c, Dec(MinConfidence))

channel_country_map ==
    ("militarysummary" :> "UKR") @@ ("ClashReport" :> "UKR") @@ ("ukraine_world" :> "UKR")
      @@ ("russia_news" :> "RUS") @@ ("middle_east_news" :> "ISR")

Channels == {"militarysummary", "unknown_channel"}

\* ------------------------------------------------------------------- state
VARIABLES
    refdata,           \* FLAG_TO_COUNTRY and COUNTRY_CENTROIDS, loaded once
    text, channel,     \* the message being processed
    pc,                \* the position in main / process_file / process_message
    result,            \* the local result of process_message
    locations,         \* the candidates of extract_location_entities
    geocode_results,   \* the results list of geocode_locations
    attempted,         \* the stages process_message has run for the message
    calls,             \* the queries sent to the geocoder for the message
    net,               \* the geocoder's requests and delays for the message
    geo,               \* what the remote service answers, per query asked so far
    run, first,        \* the number of the run on the message, the result of run 1
    files, file_idx,   \* main: the number of input files and the current one
    line_no,           \* process_file: the lines read
    processed_count, geolocated_count,
    total_processed, total_geolocated,
    outfile            \* lat and lon of the geolocation of each record written

msgvars == <<text, channel, result, locations, geocode_results, attempted, calls, net>>
batchvars == <<files, file_idx, line_no, processed_count, geolocated_count,
               total_processed, total_geolocated, outfile>>
vars == <<refdata, pc, geo, run, first, msgvars, batchvars>>

Messages(n, W) == [text : TextsUpTo(n, W), channel : Channels]

\* process_message, lines 292-295: a new message and a fresh result.
StartMessage(m) ==
    /\ text' = m.text
    /\ channel' = m.channel
    /\ result' = GeolocationResult
    /\ locations' = <<>>
    /\ geocode_results' = <<>>
    /\ attempted' = <<>>
    /\ calls' = <<>>
    /\ net' = <<>>

\* One call of self.mapbox.geocode(query) answered with outcome o: the
\* service is a fixed function of the query.
GeocodeCall(query, o) ==
    /\ o \in Outcomes
    /\ query \in DOMAIN geo => o = geo[query]
    /\ geo' = (query :> o) @@ geo
    /\ calls' = Append(calls, query)
    /\ net' = net \o geocode_events(query, o)

\* ------------------------------------------------------- process_message
\* Lines 300-303: the result of step 1.
CoordinatesResult(r, coords) ==
    [r EXCEPT
       !.lat = Some(coords.lat),
       !.lon = Some(coords.lon),
       !.confidence = Dec(950),
       !.source = "coordinates_regex",
       !.geocoding_attempts = Append(@, "Found coordinates: " \o coords.repr)]

\* Lines 312-316: the result of step 2.
FlagResult(r, country_code, centroid) ==
    [r EXCEPT
       !.lat = Some(centroid.lat),
       !.lon = Some(centroid.lon),
       !.country_code = Some(country_code),
       !.confidence = Dec(850),
       !.source = "flag_emoji",
       !.geocoding_attempts = Append(@, "Found flag: " \o country_code)]

\* Line 320 with the comparison off by one: len(text) >= 10.
Substantial_AtLeast(t) == PyLen(t) >= MinTextLen

\* Line 320: only substantial text reaches step 3.
Substantial(t) == PyLen(t) > MinTextLen

\* Lines 338-343: the result of step 4.
PlaceNameResult(r, name, geocode_result) ==
    [r EXCEPT
       !.lat = Some(geocode_result.lat),
       !.lon = Some(geocode_result.lon),
       !.place_name = Some(geocode_result.place_name),
       !.confidence = Dec(400),
       !.source = "place_name_geocoding",
       !.geocoding_attempts = Append(@, "Geocoded place: " \o name)]

\* Step 5 with no minimum confidence for the channel fallback.
ChannelResult_ZeroConfidence(r, country_code, centroid) ==
    [r EXCEPT
       !.lat = Some(centroid.lat),
       !.lon = Some(centroid.lon),
       !.country_code = Some(country_code),
       !.confidence = Dec(0),
       !.source = "channel_fallback",
       !.geocoding_attempts = Append(@, "Channel fallback: " \o country_code)]

\* Lines 359-363: the result of step 5.
ChannelResult(r, country_code, centroid) ==
    [r EXCEPT
       !.lat = Some(centroid.lat),
       !.lon = Some(centroid.lon),
       !.country_code = Some(country_code),
       !.confidence = Dec(200),
       !.source = "channel_fallback",
       !.geocoding_attempts = Append(@, "Channel fallback: " \o country_code)]

\* The terminal result without its entry in geocoding_attempts.
NoneResult_NoAttempt(r) ==
    [r EXCEPT !.confidence = Dec(0), !.source = "none"]

\* Lines 367-369: the terminal result.
NoneResult(r) ==
    [r EXCEPT
       !.confidence = Dec(0),
       !.source = "none",
       !.geocoding_attempts = Append(@, "No geolocation found")]

\* Step 1 run after the flag lookup: coordinates are tried only when no flag
\* of the text has a centroid.
Step1Coordinates_AfterFlag ==
    /\ pc = "step1"
    /\ attempted' = Append(attempted, "coordinates")
    /\ LET flag_countries == extract_flag_countries(text, refdata.flag_to_country)
           flagged == /\ flag_countries # <<>>
                      /\ flag_countries[1] \in DOMAIN refdata.country_centroids
           coords == extract_coordinates(text)
       IN IF coords # None /\ ~flagged
          THEN /\ result' = CoordinatesResult(result, coords[1])
               /\ pc' = "done"
          ELSE /\ result' = result
               /\ pc' = "step2"
    /\ UNCHANGED <<refdata, text, channel, locations, geocode_results, calls, net, geo,
                   run, first, batchvars>>

\* Step 1: exact coordinates.
Step1Coordinates ==
    /\ pc = "step1"
    /\ attempted' = Append(attempted, "coordinates")
    /\ LET coords == extract_coordinates(text)
       IN IF coords # None
          THEN /\ result' = CoordinatesResult(result, coords[1])
               /\ pc' = "done"
          ELSE /\ result' = result
               /\ pc' = "step2"
    /\ UNCHANGED <<refdata, text, channel, locations, geocode_results, calls, net, geo,
                   run, first, batchvars>>

\* Step 2 looking up every flag found, in order, until one has a centroid.
Step2Flag_AnyCentroid ==
    /\ pc = "step2"
    /\ attempted' = Append(attempted, "flag")
    /\ LET flag_countries == extract_flag_countries(text, refdata.flag_to_country)
           with_centroid == SelectSeq(flag_countries,
                                      LAMBDA c : c \in DOMAIN refdata.country_centroids)
           country_code == with_centroid[1]
           centroid == get_country_centroid(country_code, refdata.country_centroids)
       IN IF with_centroid # <<>>
          THEN /\ result' = FlagResult(result, country_code, centroid[1])
               /\ pc' = "done"
          ELSE /\ result' = result
               /\ pc' = "step3"
    /\ UNCHANGED <<refdata, text, channel, locations, geocode_results, calls, net, geo,
                   run, first, batchvars>>

\* Step 2: flag symbols; only flag_countries[0] is looked up.
Step2Flag ==
    /\ pc = "step2"
    /\ attempted' = Append(attempted, "flag")
    /\ LET flag_countries == extract_flag_countries(text, refdata.flag_to_country)
           country_code == flag_countries[1]
           centroid == get_country_centroid(country_code, refdata.country_centroids)
       IN IF flag_countries # <<>> /\ centroid # None
          THEN /\ result' = FlagResult(result, country_code, centroid[1])
               /\ pc' = "done"
          ELSE /\ result' = result
               /\ pc' = "step3"
    /\ UNCHANGED <<refdata, text, channel, locations, geocode_results, calls, net, geo,
                   run, first, batchvars>>

\* Step 3, lines 320-323: entity extraction, for substantial text only.
Step3Extract ==
    /\ pc = "step3"
    /\ IF Substantial(text)
       THEN /\ attempted' = Append(attempted, "entity_geocoding")
            /\ locations' = extract_location_entities(text)
            /\ pc' = IF locations' # <<>> THEN "geocode_locations" ELSE "step4"
       ELSE /\ attempted' = attempted
            /\ locations' = locations
            /\ pc' = "step4"
    /\ geocode_results' = <<>>
    /\ UNCHANGED <<refdata, text, channel, result, calls, net, geo, run, first, batchvars>>

\* geocode_locations sending each query a second time.
GeocodeLocation_Twice ==
    /\ pc = "geocode_locations"
    /\ Len(geocode_results) < Len(locations)
    /\ LET location == locations[Len(geocode_results) + 1]
       IN \E o \in Outcomes :
            /\ location.query \in DOMAIN geo => o = geo[location.query]
            /\ geo' = (location.query :> o) @@ geo
            /\ calls' = calls \o <<location.query, location.query>>
            /\ net' = net \o geocode_events(location.query, o)
                          \o geocode_events(location.query, o)
            /\ geocode_results' =
                 Append(geocode_results, LocationResult(location, geocode(location.query, o)))
    /\ pc' = IF Len(geocode_results') = Len(locations) THEN "select" ELSE pc
    /\ UNCHANGED <<refdata, text, channel, result, locations, attempted, run, first,
                   batchvars>>

\* geocode_locations: one iteration of its loop, with its geocoder call.
GeocodeLocation ==
    /\ pc = "geocode_locations"
    /\ Len(geocode_results) < Len(locations)
    /\ LET location == locations[Len(geocode_results) + 1]
       IN \E o \in Outcomes :
            /\ GeocodeCall(location.query, o)
            /\ geocode_results' =
                 Append(geocode_results, LocationResult(location, geocode(location.query, o)))
    /\ pc' = IF Len(geocode_results') = Len(locations) THEN "select" ELSE pc
    /\ UNCHANGED <<refdata, text, channel, result, locations, attempted, run, first,
                   batchvars>>

\* Step 3 going on with the rejected best result instead of the fresh one.
Step3Select_KeepRejected ==
    /\ pc = "select"
    /\ LET best_result == BestResult(geocode_results)
       IN IF AboveMinimum(best_result.confidence)
          THEN /\ result' = [best_result EXCEPT
                               !.confidence = calculate_confidence_score(best_result)]
               /\ geocode_results' =
                    [geocode_results EXCEPT ![PositionOf(geocode_results, best_result)] = result']
               /\ pc' = "done"
          ELSE /\ result' = best_result
               /\ geocode_results' = geocode_results
               /\ pc' = "step4"
    /\ UNCHANGED <<refdata, text, channel, locations, attempted, calls,
                   net, geo, run, first, batchvars>>

\* Step 3, lines 325-330: the best result, accepted above the threshold.
\* result becomes another name of the object that max returned, so the
\* adjusted confidence of line 329 is written into the element of
\* geocode_results as well.
Step3Select ==
    /\ pc = "select"
    /\ LET best_result == BestResult(geocode_results)
       IN IF AboveMinimum(best_result.confidence)
          THEN /\ result' = [best_result EXCEPT
                               !.confidence = calculate_confidence_score(best_result)]
               /\ geocode_results' =
                    [geocode_results EXCEPT ![PositionOf(geocode_results, best_result)] = result']
               /\ pc' = "done"
          ELSE /\ result' = result
               /\ geocode_results' = geocode_results
               /\ pc' = "step4"
    /\ UNCHANGED <<refdata, text, channel, locations, attempted, calls,
                   net, geo, run, first, batchvars>>

\* Step 4: the place-name fallback; place_names[0] is whichever element the
\* set yields first.
Step4PlaceName ==
    /\ pc = "step4"
    /\ attempted' = Append(attempted, "place_name")
    /\ LET place_names == extract_place_names(text)
       IN IF place_names # {}
          THEN \E name \in place_names, o \in Outcomes :
                 /\ GeocodeCall(name, o)
                 /\ LET geocode_result == geocode(name, o)
                    IN IF geocode_result # None
                       THEN /\ result' = PlaceNameResult(result, name, geocode_result[1])
                            /\ pc' = "done"
                       ELSE /\ result' = result
                            /\ pc' = "step5"
          ELSE /\ result' = result
               /\ pc' = "step5"
               /\ UNCHANGED <<calls, net, geo>>
    /\ UNCHANGED <<refdata, text, channel, locations, geocode_results, run, first,
                   batchvars>>

\* Step 5: the channel fallback.
Step5Channel ==
    /\ pc = "step5"
    /\ attempted' = Append(attempted, "channel")
    /\ LET known == channel \in DOMAIN channel_country_map
           country_code == channel_country_map[channel]
           centroid == get_country_centroid(country_code, refdata.country_centroids)
       IN IF known /\ centroid # None
          THEN /\ result' = ChannelResult(result, country_code, centroid[1])
               /\ pc' = "done"
          ELSE /\ result' = result
               /\ pc' = "none"
    /\ UNCHANGED <<refdata, text, channel, locations, geocode_results, calls, net, geo,
                   run, first, batchvars>>

\* Lines 366-370: no geolocation found.
NoGeolocation ==
    /\ pc = "none"
    /\ result' = NoneResult(result)
    /\ pc' = "done"
    /\ UNCHANGED <<refdata, text, channel, locations, geocode_results, attempted, calls,
                   net, geo, run, first, batchvars>>

ProcessMessage ==
    \/ Step1Coordinates
    \/ Step2Flag
    \/ Step3Extract
    \/ GeocodeLocation
    \/ Step3Select
    \/ Step4PlaceName
    \/ Step5Channel
    \/ NoGeolocation

\* The pipeline is run again on the same message, in a new process, with the
\* same reference data and the same answers of the geocoding service.
Rerun ==
    /\ pc = "done"
    /\ run < MaxRuns
    /\ run' = run + 1
    /\ first' = IF run = 1 THEN Some(result) ELSE first
    /\ StartMessage([text |-> text, channel |-> channel])
    /\ pc' = "step1"
    /\ UNCHANGED <<refdata, geo, batchvars>>

BatchIdle ==
    /\ files = 0
    /\ file_idx = 0
    /\ line_no = 0
    /\ processed_count = 0
    /\ geolocated_count = 0
    /\ total_processed = 0
    /\ total_geolocated = 0
    /\ outfile = <<>>

\* One message handed to process_message.
Init ==
    /\ refdata \in RefDataChoices
    /\ \E m \in Messages(MaxWords, Words) : text = m.text /\ channel = m.channel
    /\ pc = "step1"
    /\ result = GeolocationResult
    /\ locations = <<>>
    /\ geocode_results = <<>>
    /\ attempted = <<>>
    /\ calls = <<>>
    /\ net = <<>>
    /\ geo = <<>>
    /\ run = 1
    /\ first = None
    /\ BatchIdle

Next == ProcessMessage

Spec == Init /\ [][Next]_vars

\* The same, with the pipeline run again on the message.
NextRerun == ProcessMessage \/ Rerun

SpecRerun == Init /\ [][NextRerun]_vars

\* ------------------------------------------------------ process_file, main
\* Truth value of an Optional[float]: None and 0.0 are false.
Truthy(x) == x # None /\ x[1] # 0

\* What a line of an input file is: not JSON, JSON that process_message
\* cannot process (not an object), or a message.
LineKinds == {"invalid_json", "not_an_object", "message"}

\* main, lines 413-432: the token, the output directory, the input files.
MainStart ==
    /\ pc = "main"
    /\ \E token_set \in BOOLEAN, n \in 0..MaxFiles :
         IF token_set /\ n > 0
         THEN /\ files' = n
              /\ file_idx' = 1
              /\ pc' = "process_file"
         ELSE /\ files' = n
              /\ file_idx' = 0
              /\ pc' = "exit"
    /\ total_processed' = 0
    /\ total_geolocated' = 0
    /\ UNCHANGED <<refdata, msgvars, geo, run, first, line_no, processed_count,
                   geolocated_count, outfile>>

\* process_file, lines 374-380: the counters, both files opened.
OpenFile ==
    /\ pc = "process_file"
    /\ processed_count' = 0
    /\ geolocated_count' = 0
    /\ line_no' = 0
    /\ outfile' = <<>>
    /\ pc' = "read"
    /\ UNCHANGED <<refdata, msgvars, geo, run, first, files, file_idx,
                   total_processed, total_geolocated>>

\* Lines 382-385 and 400-405: the next line; a line that is not JSON or
\* that process_message raises on is skipped.
ReadLine ==
    /\ pc = "read"
    /\ line_no < MaxLines
    /\ line_no' = line_no + 1
    /\ \E kind \in LineKinds :
         IF kind = "message"
         THEN /\ \E m \in Messages(MaxBatchWords, BatchWords) : StartMessage(m)
              /\ pc' = "step1"
         ELSE /\ UNCHANGED msgvars
              /\ pc' = "read"
    /\ UNCHANGED <<refdata, geo, run, first, files, file_idx, processed_count,
                   geolocated_count, total_processed, total_geolocated, outfile>>

\* Lines 387-398: the record written and counted; the message and the
\* locals of process_message are gone with the iteration.
WriteRecord ==
    /\ pc = "done"
    /\ StartMessage([text |-> <<>>, channel |-> ""])
    /\ outfile' = Append(outfile, [lat |-> result.lat, lon |-> result.lon])
    /\ processed_count' = processed_count + 1
    /\ geolocated_count' =
         IF Truthy(result.lat) /\ Truthy(result.lon)
         THEN geolocated_count + 1
         ELSE geolocated_count
    /\ pc' = "read"
    /\ UNCHANGED <<refdata, geo, run, first, files, file_idx, line_no,
                   total_processed, total_geolocated>>

\* The end of the input file, and lines 407-408: the summary line divides
\* by processed_count, and its ZeroDivisionError is caught nowhere.
FinishFile ==
    /\ pc = "read"
    /\ pc' = IF processed_count = 0 THEN "crashed" ELSE "returned"
    /\ UNCHANGED <<refdata, msgvars, geo, run, first, batchvars>>

\* main, lines 434-442: the totals, and the next input file.
MainAccumulate ==
    /\ pc = "returned"
    /\ total_processed' = total_processed + processed_count
    /\ total_geolocated' = total_geolocated + geolocated_count
    /\ IF file_idx < files
       THEN file_idx' = file_idx + 1 /\ pc' = "process_file"
       ELSE file_idx' = file_idx /\ pc' = "summary"
    /\ UNCHANGED <<refdata, msgvars, geo, run, first, files, line_no,
                   processed_count, geolocated_count, outfile>>

\* main, line 444: the total summary line, which divides by total_processed.
MainSummary ==
    /\ pc = "summary"
    /\ pc' = IF total_processed = 0 THEN "crashed" ELSE "exit"
    /\ UNCHANGED <<refdata, msgvars, geo, run, first, batchvars>>

\* One run of main.
InitBatch ==
    /\ refdata \in RefDataChoices
    /\ text = <<>>
    /\ channel = ""
    /\ pc = "main"
    /\ result = GeolocationResult
    /\ locations = <<>>
    /\ geocode_results = <<>>
    /\ attempted = <<>>
    /\ calls = <<>>
    /\ net = <<>>
    /\ geo = <<>>
    /\ run = 1
    /\ first = None
    /\ BatchIdle

NextBatch ==
    \/ MainStart
    \/ OpenFile
    \/ ReadLine
    \/ ProcessMessage
    \/ WriteRecord
    \/ FinishFile
    \/ MainAccumulate
    \/ MainSummary

SpecBatch == InitBatch /\ [][NextBatch]_vars

\* ================================================================= claims
\* What each stage's acceptance is, read off the state at the return of
\* process_message.
HasFlagWithCentroid ==
    \E i \in 1..Len(refdata.flag_to_country) :
        /\ \E k \in 1..NWords(text) : Word(text, k) = refdata.flag_to_country[i].flag
        /\ refdata.flag_to_country[i].code \in DOMAIN refdata.country_centroids

CoordinatesAccept == extract_coordinates(text) # None

FlagAccepts ==
    LET flag_countries == extract_flag_countries(text, refdata.flag_to_country)
    IN /\ flag_countries # <<>>
       /\ flag_countries[1] \in DOMAIN refdata.country_centroids

EntityAccepts ==
    \E i \in 1..Len(geocode_results) : Gt(geocode_results[i].confidence, Dec(MinConfidence))

\* The place-name call is the one call beyond those of geocode_locations.
PlaceNameCalled == Len(calls) = Len(geocode_results) + 1
PlaceNameAccepts == PlaceNameCalled /\ geo[calls[Len(calls)]].kind = "match"

ChannelAccepts ==
    /\ channel \in DOMAIN channel_country_map
    /\ channel_country_map[channel] \in DOMAIN refdata.country_centroids

StageAccepts(k) ==
    CASE k = 1 -> CoordinatesAccept
      [] k = 2 -> FlagAccepts
      [] k = 3 -> EntityAccepts
      [] k = 4 -> PlaceNameAccepts
      [] k = 5 -> ChannelAccepts
      [] OTHER -> TRUE

StageOf(source) ==
    CASE source = "coordinates_regex" -> 1
      [] source = "flag_emoji" -> 2
      [] StartsWith(source, "llm_geocoding_") -> 3
      [] source = "place_name_geocoding" -> 4
      [] source = "channel_fallback" -> 5
      [] OTHER -> 6

Returned == pc = "done"

\* C1: a message with a valid exact coordinate and a flag whose country has
\* a centroid yields the coordinate result (source coordinates_regex,
\* confidence 0.95, lat/lon from the text, no country code); in general the
\* source returned is that of the first stage, in the order coordinates,
\* flag, entity geocoding, place name, channel fallback, that accepts.
C1_StagePriority ==
    Returned =>
      /\ (CoordinatesAccept /\ HasFlagWithCentroid) =>
            /\ result.source = "coordinates_regex"
            /\ result.confidence = Dec(950)
            /\ result.lat = Some(extract_coordinates(text)[1].lat)
            /\ result.lon = Some(extract_coordinates(text)[1].lon)
            /\ result.country_code = None
      /\ StageAccepts(StageOf(result.source))
      /\ \A j \in 1..(StageOf(result.source) - 1) : ~StageAccepts(j)

C1_Witness ==
    /\ Returned
    /\ CoordinatesAccept
    /\ HasFlagWithCentroid
    /\ result.source = "coordinates_regex"

\* C2: every stage process_message runs for a message appends a diagnostic
\* string, so the returned geocoding_attempts holds an entry for each stage
\* attempted up to and including the one that produced the result.
C2_AttemptPerStage ==
    Returned => Len(result.geocoding_attempts) >= Len(attempted)

\* C3: the rate-limit delay is taken after every geocoder call, so a delay
\* lies between every two consecutive requests.
C3_DelayBetweenRequests ==
    \A i \in 1..(Len(net) - 1) :
        net[i][1] = "request" => net[i + 1][1] = "delay"

\* C4: no input file, whatever its lines, makes process_file raise: the
\* batch is never aborted.
C4_BatchNeverAborted == pc # "crashed"

\* C5: in every result returned, confidence is 0.0 exactly when the source
\* is "none", and the source is one of the six source values.
Sources ==
    {"coordinates_regex", "flag_emoji", "llm_geocoding_city_country",
     "llm_geocoding_city_in_country", "llm_geocoding_city_only",
     "place_name_geocoding", "channel_fallback", "none"}

C5_ZeroIffNone ==
    Returned =>
      /\ result.source \in Sources
      /\ (result.confidence = Dec(0)) <=> (result.source = "none")

\* The terminal result after the entity stage geocoded candidates, some of
\* them to zero confidence, and every later stage failed.
C5_Witness ==
    /\ Returned
    /\ result.source = "none"
    /\ result.confidence = Dec(0)
    /\ \E i \in 1..Len(geocode_results) : geocode_results[i].confidence = Dec(0)

\* C6: the confidence of every result returned lies in [0.0, 1.0], whatever
\* relevance the geocoder returned.
C6_ConfidenceInUnitInterval ==
    Returned => (Le(Dec(0), result.confidence) /\ Le(result.confidence, Dec(1000)))

\* An accepted entity result whose weight x relevance exceeded 1.0.
C6_Witness ==
    /\ Returned
    /\ StageOf(result.source) = 3
    /\ result.confidence = Dec(1000)
    /\ \E i \in 1..Len(locations) :
          /\ result.place_name = Some(locations[i].query)
          /\ geo[locations[i].query].kind = "match"
          /\ Gt(FloatProduct(locations[i].confidence, geo[locations[i].query].relevance),
                Dec(1000))

\* C7: geocoding_attempts is never empty in a result returned.
C7_AttemptsNonEmpty ==
    Returned => result.geocoding_attempts # <<>>

\* The terminal path, where no stage matched and the one entry is that of
\* the terminal result.
C7_Witness ==
    /\ Returned
    /\ result.source = "none"
    /\ Len(result.geocoding_attempts) = 1

\* C8 as stated: a text of length <= 10 without coordinates or flag symbols
\* from an unknown channel yields source "none", confidence 0.0, whatever
\* the geocoder returns.
NoFlagSymbol == \A k \in 1..NWords(text) : Word(text, k) \notin FlagWords

ShortUnknown ==
    /\ PyLen(text) <= 10
    /\ channel \notin DOMAIN channel_country_map
    /\ ~CoordinatesAccept
    /\ NoFlagSymbol

C8_ShortTextNone ==
    (Returned /\ ShortUnknown) => (result.source = "none" /\ result.confidence = Dec(0))

\* C8 amended: for such a message the entity stage is not run; the
\* place-name stage is, and sends one extracted name to the geocoder when
\* the text has a capitalized word: the result is "place_name_geocoding"
\* with confidence 0.4 if that call matches, and "none" with 0.0 otherwise.
C8_ShortTextNoneUnlessPlaceName ==
    (Returned /\ ShortUnknown) =>
      /\ geocode_results = <<>>
      /\ (calls = <<>>) <=> (extract_place_names(text) = {})
      /\ Len(calls) <= 1
      /\ IF calls # <<>> /\ geo[calls[1]].kind = "match"
         THEN result.source = "place_name_geocoding" /\ result.confidence = Dec(400)
         ELSE result.source = "none" /\ result.confidence = Dec(0)

C8_Witness ==
    /\ Returned
    /\ ShortUnknown
    /\ PyLen(text) = 10
    /\ result.source = "place_name_geocoding"

\* C9: two runs of the pipeline on the same message, with the same
\* reference data and the same geocoder answers, return identical results.
C9_Deterministic ==
    (Returned /\ run = 2) => Some(result) = first

\* C10: a text holding a decimal-degree pair within the bounds yields a
\* valid pair of the text, with source "coordinates_regex" and confidence
\* 0.95, whatever other coordinate-like matches it holds.
ValidDecimalPairs ==
    { DecimalTable[w] : w \in {v \in DecimalWords :
                                  InRange(DecimalTable[v].a.v, DecimalTable[v].b.v)} }

HasValidDecimalPair ==
    \E k \in 1..NWords(text) :
        /\ Word(text, k) \in DecimalWords
        /\ DecimalTable[Word(text, k)] \in ValidDecimalPairs

C10_ValidPairReturned ==
    (Returned /\ HasValidDecimalPair) =>
      /\ extract_coordinates(text) # None
      /\ result.source = "coordinates_regex"
      /\ result.confidence = Dec(950)

\* C11: in every result returned, whichever stage produced it, lat and lon
\* when present satisfy -90 <= lat <= 90 and -180 <= lon <= 180.
C11_CoordinatesInRange ==
    Returned =>
      /\ result.lat # None => (-9000 <= result.lat[1] /\ result.lat[1] <= 9000)
      /\ result.lon # None => (-18000 <= result.lon[1] /\ result.lon[1] <= 18000)

\* C12: in the entity stage each candidate's confidence is its weight x the
\* relevance of its match (0.0 without a match); the candidate of maximum
\* confidence is selected, the earliest one on a tie; it is accepted iff that
\* confidence is strictly above 0.3, and otherwise the stage produces nothing
\* and the pipeline goes on with the place-name stage.
CandidateConfidence(i) ==
    LET o == geo[locations[i].query]
    IN IF o.kind = "match"
       THEN FloatProduct(locations[i].confidence, o.relevance)
       ELSE Dec(0)

EarliestMaximum ==
    CHOOSE i \in 1..Len(locations) :
        /\ \A j \in 1..Len(locations) : Le(CandidateConfidence(j), CandidateConfidence(i))
        /\ \A j \in 1..(i - 1) : Lt(CandidateConfidence(j), CandidateConfidence(i))

EntityStageOver ==
    /\ locations # <<>>
    /\ Len(geocode_results) = Len(locations)
    /\ pc \in {"step4", "step5", "none", "done"}

C12_BestResultSelection ==
    /\ pc = "select" =>
          \A i \in 1..Len(locations) :
              geocode_results[i].confidence = CandidateConfidence(i)
    /\ EntityStageOver =>
      /\ \A i \in 1..Len(locations) :
            (i # EarliestMaximum \/ Le(CandidateConfidence(EarliestMaximum), Dec(300)))
               => geocode_results[i].confidence = CandidateConfidence(i)
      /\ IF Gt(CandidateConfidence(EarliestMaximum), Dec(300))
         THEN /\ pc = "done"
              /\ result.source = "llm_geocoding_" \o locations[EarliestMaximum].type
              /\ result.place_name = Some(locations[EarliestMaximum].query)
              /\ result.geocoding_attempts[1] =
                    "LLM extracted: " \o locations[EarliestMaximum].query
         ELSE /\ ~StartsWith(result.source, "llm_geocoding")
              /\ pc = "step4" \/ attempted[Len(attempted)] \in {"place_name", "channel"}

\* An accepted candidate that a later candidate ties with, both of weight
\* 0.4 and relevance 0.75: their confidence 0.30000000000000004 is the
\* least one above the threshold.
C12_Witness ==
    /\ EntityStageOver
    /\ pc = "done"
    /\ StartsWith(result.source, "llm_geocoding")
    /\ \E j \in (EarliestMaximum + 1)..Len(locations) :
          /\ CandidateConfidence(j) = CandidateConfidence(EarliestMaximum)
          /\ locations[j].query # locations[EarliestMaximum].query
    /\ CandidateConfidence(EarliestMaximum) = <<300, 1>>

\* C13: the geocoding_attempts of the result returned holds an entry for
\* each geocoding attempt made for the message (every candidate that
\* geocode_locations sent to the geocoder, and the place-name call of step
\* 4), in the order the attempts were made.
EntriesFor(query) ==
    {"LLM extracted: " \o query, "Geocoded place: " \o query}

IsTrailOf(log, queries) ==
    \E f \in [1..Len(queries) -> 1..Len(log)] :
        /\ \A i \in 1..Len(queries) : log[f[i]] \in EntriesFor(queries[i])
        /\ \A i \in 1..(Len(queries) - 1) : f[i] < f[i + 1]

C13_AttemptsTrailComplete ==
    Returned =>
      /\ Len(result.geocoding_attempts) >= Len(calls)
      /\ IsTrailOf(result.geocoding_attempts, calls)

\* C14: of the flags of the mapping that the text contains only the first
\* in mapping order is used: the flag stage yields source "flag_emoji",
\* confidence 0.85, that country's code and centroid iff that country has a
\* centroid; otherwise it yields nothing, even when another flag of the text
\* has one, and the later stages start with country_code unset.
FlagStageOver == Len(attempted) >= 2 /\ attempted[2] = "flag"

FlagsPresent ==
    SelectSeq(refdata.flag_to_country,
              LAMBDA e : \E k \in 1..NWords(text) : Word(text, k) = e.flag)

C14_FirstFlagOnly ==
    FlagStageOver =>
      IF FlagsPresent # <<>> /\ FlagsPresent[1].code \in DOMAIN refdata.country_centroids
      THEN /\ pc = "done"
           /\ result.source = "flag_emoji"
           /\ result.confidence = Dec(850)
           /\ result.country_code = Some(FlagsPresent[1].code)
           /\ result.lat = Some(refdata.country_centroids[FlagsPresent[1].code].lat)
           /\ result.lon = Some(refdata.country_centroids[FlagsPresent[1].code].lon)
      ELSE /\ result.source # "flag_emoji"
           /\ pc \in {"step3", "geocode_locations", "select", "step4", "step5"}
                 => result.country_code = None

\* The first flag of the text has no centroid, another one has, and the
\* pipeline has gone on to step 3.
C14_Witness ==
    /\ FlagStageOver
    /\ pc = "step3"
    /\ Len(FlagsPresent) = 2
    /\ FlagsPresent[1].code \notin DOMAIN refdata.country_centroids
    /\ FlagsPresent[2].code \in DOMAIN refdata.country_centroids
    /\ result.country_code = None

\* C15: in every result returned, also after earlier stages were tried and
\* rejected, country_code is set iff the source is "flag_emoji" or
\* "channel_fallback"; place_name is set only if the source is
\* "llm_geocoding_<type>" or "place_name_geocoding"; lat and lon are both set
\* when the source is not "none" and both unset when it is.
C15_FieldConsistency ==
    Returned =>
      /\ (result.country_code # None)
            <=> (result.source \in {"flag_emoji", "channel_fallback"})
      /\ (result.place_name # None)
            => (StartsWith(result.source, "llm_geocoding_")
                  \/ result.source = "place_name_geocoding")
      /\ IF result.source = "none"
         THEN result.lat = None /\ result.lon = None
         ELSE result.lat # None /\ result.lon # None

\* The channel fallback returned after the entity stage had a match, with
\* its place name, and rejected it.
C15_Witness ==
    /\ Returned
    /\ result.source = "channel_fallback"
    /\ \E i \in 1..Len(geocode_results) : geocode_results[i].place_name # None

\* C16: when the coordinate stage or the flag stage accepts, no geocoder
\* call is made for the message; the number of geocoder calls for one
\* message is at most the number of extracted entity candidates plus one,
\* and the place-name call is made only if the entity stage accepted nothing.
C16_CallsBounded ==
    /\ (CoordinatesAccept \/ FlagAccepts) => calls = <<>>
    /\ Len(calls) <= Len(extract_location_entities(text)) + 1
    /\ Len(calls) > Len(geocode_results) =>
          /\ Len(calls) = Len(geocode_results) + 1
          /\ ~EntityAccepts
          /\ "place_name" \in {attempted[i] : i \in 1..Len(attempted)}

\* The most calls a message can cause: one per candidate, of which there
\* are several, and the place-name call.
C16_Witness ==
    /\ Returned
    /\ Len(locations) >= 2
    /\ Len(calls) = Len(locations) + 1

\* C17: when the entity stage ran and rejected all its candidates, the best
\* weight x relevance being <= 0.3, the result returned is not a geocoder
\* match with confidence above 0.3 for a query that the entity stage had
\* geocoded and rejected.
EntityStageRejected ==
    /\ geocode_results # <<>>
    /\ Len(geocode_results) = Len(locations)
    /\ ~EntityAccepts

C17_ThresholdNotBypassed ==
    (Returned /\ EntityStageRejected) =>
      ~ /\ result.source = "place_name_geocoding"
        /\ Gt(result.confidence, Dec(MinConfidence))
        /\ \E i \in 1..Len(locations) : locations[i].query = calls[Len(calls)]

\* jsonl_to_geojson: the records of an output file it counts as geolocated,
\* those whose lat and lon are both not None.
GeojsonGeolocatedCount(records) ==
    Cardinality({i \in 1..Len(records) :
                    records[i].lat # None /\ records[i].lon # None})

\* C18: the geolocated count process_file returns equals the number of
\* records it wrote whose lat and lon are both present, the count that
\* jsonl_to_geojson computes from the output file, records with a lat or
\* lon of 0.0 included; the processed count equals the number of records
\* written.
C18_CountsConsistent ==
    pc = "returned" =>
      /\ processed_count = Len(outfile)
      /\ geolocated_count = GeojsonGeolocatedCount(outfile)
====
